---- MODULE Spec2Model ----
(***************************************************************************)
(* Model of the study-time logger: the Session Form (src/main.py,          *)
(* StudyLoggerWindow) wired to the Persistence Store (src/db.py).          *)
(*                                                                         *)
(* Texts that the code inspects character by character (time fields, the   *)
(* duration display, the total label) are sequences of one-character       *)
(* strings, so that parsing, formatting and the store's text ordering are  *)
(* computed the way the code computes them.  Category names and dates are  *)
(* only ever compared for equality and stay atomic values.                 *)
(***************************************************************************)
EXTENDS Integers, Sequences, FiniteSets, Bags, TLC

\* ------------------------------------------------------------------ bounds
\* Number of calendar dates the date picker can hold.
MaxDate == 2
\* Largest number of rows the form's table is grown to with Add Row.
MaxRows == 2
\* Number of category options (the first ones of the combo box) the user picks from.
MaxCategory == 2

Dates == 1..MaxDate

\* ---------------------------------------------------------- text helpers
\* Code point of the characters that occur in the texts of the model.
Ord(c) ==
    CASE c = " " -> 32
      [] c = "0" -> 48 [] c = "1" -> 49 [] c = "2" -> 50 [] c = "3" -> 51
      [] c = "4" -> 52 [] c = "5" -> 53 [] c = "6" -> 54 [] c = "7" -> 55
      [] c = "8" -> 56 [] c = "9" -> 57
      [] c = ":" -> 58
      [] c = "a" -> 97 [] c = "b" -> 98 [] c = "d" -> 100
      [] c = "h" -> 104 [] c = "m" -> 109
      [] OTHER -> 8212

IsDigit(c) == Ord(c) >= 48 /\ Ord(c) <= 57

DigitChar(n) == <<"0", "1", "2", "3", "4", "5", "6", "7", "8", "9">>[n + 1]

\* str(n) for a non-negative integer.
RECURSIVE IntToStr(_)
IntToStr(n) ==
    IF n < 10 THEN <<DigitChar(n)>>
    ELSE IntToStr(n \div 10) \o <<DigitChar(n % 10)>>

\* int(s) for a text of decimal digits.
RECURSIVE StrToInt(_)
StrToInt(s) ==
    IF Len(s) = 0 THEN 0
    ELSE 10 * StrToInt(SubSeq(s, 1, Len(s) - 1)) + (Ord(s[Len(s)]) - 48)

AllDigits(s) == \A i \in 1..Len(s) : IsDigit(s[i])

\* str.strip(): leading and trailing whitespace removed.
RECURSIVE strip(_)
strip(s) ==
    IF Len(s) = 0 THEN s
    ELSE IF s[1] = " " THEN strip(Tail(s))
    ELSE IF s[Len(s)] = " " THEN strip(SubSeq(s, 1, Len(s) - 1))
    ELSE s

\* str.replace(c, ""): every occurrence of the character c removed.
RECURSIVE RemoveChar(_, _)
RemoveChar(s, c) ==
    IF Len(s) = 0 THEN s
    ELSE IF s[1] = c THEN RemoveChar(Tail(s), c)
    ELSE <<s[1]>> \o RemoveChar(Tail(s), c)

\* str.split(): the maximal runs of non-whitespace characters, in order.
RECURSIVE SplitFrom(_, _)
SplitFrom(s, cur) ==
    IF Len(s) = 0 THEN (IF Len(cur) = 0 THEN <<>> ELSE <<cur>>)
    ELSE IF s[1] = " "
         THEN (IF Len(cur) = 0 THEN <<>> ELSE <<cur>>) \o SplitFrom(Tail(s), <<>>)
         ELSE SplitFrom(Tail(s), Append(cur, s[1]))

split(s) == SplitFrom(s, <<>>)

\* Binary (memcmp) comparison of two texts, the store's default collation:
\* the first differing character decides, a proper prefix sorts first.
RECURSIVE TextLess(_, _)
TextLess(a, b) ==
    IF Len(b) = 0 THEN FALSE
    ELSE IF Len(a) = 0 THEN TRUE
    ELSE IF Ord(a[1]) # Ord(b[1]) THEN Ord(a[1]) < Ord(b[1])
    ELSE TextLess(Tail(a), Tail(b))

TextLeq(a, b) == a = b \/ TextLess(a, b)

\* ------------------------------------------------------------- constants
CATEGORY_OPTIONS == <<"GenAI", "Operating Systems", "Digital Electronics and Logic Design">>

\* The duration placeholder, a text of the single character U+2014.
PLACEHOLDER == <<"EM DASH">>

\* Outcome of a failed datetime.strptime.
ValueError == -1

\* -------------------------------------------------------- time arithmetic
\* Position of the first ":" of a text, 0 when there is none.
RECURSIVE ColonPos(_, _)
ColonPos(s, i) ==
    IF i > Len(s) THEN 0
    ELSE IF s[i] = ":" THEN i
    ELSE ColonPos(s, i + 1)

\* datetime.strptime(text, "%H:%M"): one or two digits of hour (0..23), a colon,
\* one or two digits of minute (0..59) and nothing else; the minute of the day
\* of the parsed time, or ValueError.
strptime(text) ==
    LET p == ColonPos(text, 1)
        hh == SubSeq(text, 1, p - 1)
        mm == SubSeq(text, p + 1, Len(text))
    IN  IF /\ p > 0
           /\ Len(hh) \in {1, 2} /\ AllDigits(hh) /\ StrToInt(hh) <= 23
           /\ Len(mm) \in {1, 2} /\ AllDigits(mm) /\ StrToInt(mm) <= 59
        THEN 60 * StrToInt(hh) + StrToInt(mm)
        ELSE ValueError

\* minutes_between without the day added to an end before the start.
minutes_between_no_wrap(start_str, end_str) ==
    LET start == strptime(start_str)
        end == strptime(end_str)
    IN  IF start = ValueError \/ end = ValueError THEN ValueError
        ELSE end - start

minutes_between(start_str, end_str) ==
    LET start == strptime(start_str)
        end == strptime(end_str)
    IN  IF start = ValueError \/ end = ValueError THEN ValueError
        ELSE IF end < start THEN (end + 1440) - start
        ELSE end - start

\* ------------------------------------------------------ duration display
_format_minutes(minutes) ==
    LET hours == minutes \div 60
        mins == minutes % 60
    IN  IF hours # 0
        THEN IntToStr(hours) \o <<"h", " ">> \o IntToStr(mins) \o <<"m">>
        ELSE IntToStr(mins) \o <<"m">>

_parse_duration_text(text) ==
    IF text = PLACEHOLDER \/ Len(text) = 0 THEN 0
    ELSE LET parts == split(RemoveChar(RemoveChar(text, "h"), "m"))
         IN  IF Len(parts) = 2
             THEN StrToInt(parts[1]) * 60 + StrToInt(parts[2])
             ELSE StrToInt(parts[1])

\* ------------------------------------------------------------------ state
VARIABLES
    store,         \* study_logs: the bag of stored rows (id and created_at are never read)
    table,         \* self.table: the form's rows, top to bottom
    total_label,   \* self.total_label's text
    date_picker,   \* self.date_picker's date
    connections,   \* whether table.itemChanged is connected to _on_time_changed
                   \*   (every add_empty_row connects once more; the slot is
                   \*   idempotent, so only "connected at all" matters)
    lastOp,        \* the handler that ran last and the dialog or error it ended with
    mb_start,      \* minutes_between called on its own: the start time given,
    mb_end,        \*   the end time given,
    mb_result      \*   and what the call returned (<<>> before the call)

formVars == <<store, table, total_label, date_picker, connections, lastOp>>
mbVars == <<mb_start, mb_end, mb_result>>
vars == <<store, table, total_label, date_picker, connections, lastOp,
          mb_start, mb_end, mb_result>>

\* Texts a user types into a time cell.
Blank == <<>>
T0900 == <<"9", ":", "0", "0">>
T1030 == <<"1", "0", ":", "3", "0">>

T2400 == <<"2", "4", ":", "0", "0">>

\* Typed with every kind of text: blank, a morning time with a one-digit hour,
\* a later time with a two-digit hour, an hour out of range.
DayTexts == {Blank, T0900, T1030, T2400}
\* One session a day, its start typed with a blank before the time.
FromTexts == {Blank, <<" ">> \o T0900}
ToTexts == {Blank, T1030}

\* Storage faults a save can meet: none, the DELETE statement raising, the
\* INSERT statement raising (or the process stopping before it commits).
Faults == {"none", "delete", "insert"}

StudyEntry(date_iso, start_time, end_time, category, duration_minutes) ==
    [date_iso |-> date_iso, start_time |-> start_time, end_time |-> end_time,
     category |-> category, duration_minutes |-> duration_minutes]

Row(start, end, category, duration) ==
    [start |-> start, end |-> end, category |-> category, duration |-> duration]

\* ------------------------------------------------------------ the store
RECURSIVE SeqToBag(_)
SeqToBag(s) ==
    IF Len(s) = 0 THEN EmptyBag
    ELSE SeqToBag(Tail(s)) (+) SetToBag({Head(s)})

\* INSERT INTO study_logs ... executemany(rows), committed as one transaction.
insert_entries(st, entries) ==
    IF Len(entries) = 0 THEN st ELSE st (+) SeqToBag(entries)

\* The DELETE without its WHERE clause.
delete_every_entry(st, date_iso) == EmptyBag

\* DELETE FROM study_logs WHERE study_date = ?, committed as one transaction.
delete_entries_for_date(st, date_iso) ==
    [e \in {x \in DOMAIN st : x.date_iso # date_iso} |-> st[e]]

\* The stored rows of one date, as a bag.
RowsOfDate(st, date_iso) ==
    [e \in {x \in DOMAIN st : x.date_iso = date_iso} |-> st[e]]

\* The ORDER BY start_time ASC of fetch_entries: start_time is a TEXT column, so
\* rows are ordered by the text of the start time.
OrderedByStartTime(r) ==
    \A i \in 1..(Len(r) - 1) : TextLeq(r[i].start_time, r[i + 1].start_time)

\* SELECT ... WHERE study_date = ? ORDER BY start_time ASC.  The order of rows
\* with equal start_time is not fixed by the query: the set of row lists the
\* query may return.
fetch_entries(st, date_iso) ==
    LET rows == RowsOfDate(st, date_iso)
        n == BagCardinality(rows)
    IN  { r \in [1..n -> DOMAIN rows] : SeqToBag(r) = rows /\ OrderedByStartTime(r) }

\* ------------------------------------------------------- the session form
update_total_label(tbl) ==
    LET RECURSIVE Sum(_)
        Sum(i) == IF i = 0 THEN 0
                  ELSE Sum(i - 1) + _parse_duration_text(tbl[i].duration)
        total == Sum(Len(tbl))
    IN  <<"T", "o", "t", "a", "l", ":", " ">>
        \o IntToStr(total \div 60) \o <<"h", " ">>
        \o IntToStr(total % 60) \o <<"m">>

\* The row's duration cell recomputed from its two time cells.  It is called
\* for rows that have their three items; while a row is being built (setItem
\* emits itemChanged before the row is complete) it returns at once, which is
\* why the row builders below do not call it per item.
_update_duration_for_row(tbl, row) ==
    LET minutes == minutes_between(strip(tbl[row].start), strip(tbl[row].end))
    IN  [tbl EXCEPT ![row].duration =
            IF minutes = ValueError THEN PLACEHOLDER ELSE _format_minutes(minutes)]

\* Slot of table.itemChanged: only the From and To columns recompute.
_on_time_changed(tbl, row, column) ==
    IF column \notin {0, 1} THEN tbl ELSE _update_duration_for_row(tbl, row)

\* The table after add_empty_row: a blank row with the first category selected,
\* its duration recomputed.  (The call also connects itemChanged, see AddRow.)
add_empty_row(tbl) ==
    _update_duration_for_row(
        Append(tbl, Row(<<>>, <<>>, CATEGORY_OPTIONS[1], PLACEHOLDER)), Len(tbl) + 1)

\* One loaded entry appended as a row; the combo box is not editable, so a
\* category outside the options leaves the first option selected.
_append_entry(tbl, entry) ==
    Append(tbl,
           Row(entry.start_time, entry.end_time,
               IF \E i \in DOMAIN CATEGORY_OPTIONS : CATEGORY_OPTIONS[i] = entry.category
               THEN entry.category ELSE CATEGORY_OPTIONS[1],
               _format_minutes(entry.duration_minutes)))

\* The table load_entries_for_date builds from the fetched entries: the old
\* rows dropped, a row per entry, one blank row when there is none.
RECURSIVE AppendAll(_, _)
AppendAll(tbl, entries) ==
    IF Len(entries) = 0 THEN tbl
    ELSE AppendAll(_append_entry(tbl, Head(entries)), Tail(entries))

\* load_entries_for_date without the setRowCount(0).
load_entries_keeping_rows(tbl, entries) ==
    IF Len(entries) = 0 THEN add_empty_row(tbl) ELSE AppendAll(tbl, entries)

load_entries_for_date(tbl, entries) ==
    LET cleared == SubSeq(tbl, 1, 0)
    IN  IF Len(entries) = 0 THEN add_empty_row(cleared) ELSE AppendAll(cleared, entries)

\* The table after Remove Selected, with the set of selected row numbers.
remove_selected_row(tbl, selected) ==
    LET RECURSIVE Keep(_)
        Keep(i) == IF i = 0 THEN <<>>
                   ELSE IF i \in selected THEN Keep(i - 1)
                   ELSE Append(Keep(i - 1), tbl[i])
    IN  Keep(Len(tbl))

\* collect_entries taking the duration from the row's duration cell.
collect_entries_from_display(tbl, date_iso) ==
    LET RECURSIVE Collect(_)
        Collect(i) ==
            IF i = 0 THEN [entries |-> <<>>, errors |-> <<>>]
            ELSE LET before == Collect(i - 1)
                     start == strip(tbl[i].start)
                     end == strip(tbl[i].end)
                 IN  IF minutes_between(start, end) = ValueError
                     THEN [before EXCEPT !.errors = Append(@, i)]
                     ELSE [before EXCEPT !.entries =
                             Append(@, StudyEntry(date_iso, start, end, tbl[i].category,
                                                  _parse_duration_text(tbl[i].duration)))]
    IN  Collect(Len(tbl))

\* collect_entries: the entries of the rows whose times parse, and the numbers
\* of the rows whose times do not.  Every row of the table has its items and
\* its combo box, so no row is skipped.
collect_entries(tbl, date_iso) ==
    LET RECURSIVE Collect(_)
        Collect(i) ==
            IF i = 0 THEN [entries |-> <<>>, errors |-> <<>>]
            ELSE LET before == Collect(i - 1)
                     start == strip(tbl[i].start)
                     end == strip(tbl[i].end)
                     category == IF tbl[i].category = "" THEN "Other"
                                 ELSE tbl[i].category
                     duration_min == minutes_between(start, end)
                 IN  IF duration_min = ValueError
                     THEN [before EXCEPT !.errors = Append(@, i)]
                     ELSE [before EXCEPT !.entries =
                             Append(@, StudyEntry(date_iso, start, end,
                                                  category, duration_min))]
    IN  Collect(Len(tbl))

\* ---------------------------------------------------------------- actions
Op(name, outcome) == [op |-> name, outcome |-> outcome]

\* The window constructed on an empty store: today selected, its entries loaded.
InitForm(dates) ==
    /\ store = EmptyBag
    /\ date_picker \in dates
    /\ table = load_entries_for_date(<<>>, <<>>)
    /\ connections = TRUE
    /\ total_label = update_total_label(table)
    /\ lastOp = Op("__init__", "")

\* The application closed and started again: a new window, with no connection
\* yet, over the same store; __init__ ends with load_entries_for_date.
Restart(dates) ==
    /\ date_picker' \in dates
    /\ \E entries \in fetch_entries(store, date_picker') :
        /\ table' = load_entries_for_date(<<>>, entries)
        /\ connections' = (Len(entries) = 0)
        /\ total_label' = update_total_label(table')
    /\ lastOp' = Op("__init__", "")
    /\ UNCHANGED <<store, mbVars>>

\* The user picks another date: dateChanged runs load_entries_for_date.
SelectDate(dates) ==
    \E d \in dates \ {date_picker} :
        /\ date_picker' = d
        /\ \E entries \in fetch_entries(store, d) :
            /\ table' = load_entries_for_date(table, entries)
            /\ connections' = (connections \/ Len(entries) = 0)
            /\ total_label' = update_total_label(table')
        /\ lastOp' = Op("load_entries_for_date", "")
        /\ UNCHANGED <<store, mbVars>>

\* Add Row.
AddRow ==
    /\ Len(table) < MaxRows
    /\ table' = add_empty_row(table)
    /\ connections' = TRUE
    /\ total_label' = update_total_label(table')
    /\ lastOp' = Op("add_empty_row", "")
    /\ UNCHANGED <<store, date_picker, mbVars>>

\* Remove Selected.
RemoveSelected ==
    \E selected \in SUBSET (1..Len(table)) :
        /\ table' = remove_selected_row(table, selected)
        /\ total_label' = update_total_label(table')
        /\ lastOp' = Op("remove_selected_row", "")
        /\ UNCHANGED <<store, date_picker, connections, mbVars>>

\* The user edits the From (column 0) or To (column 1) cell of a row; the
\* table emits itemChanged, which reaches _on_time_changed when connected.
EditTime(row, column, text) ==
    /\ row \in 1..Len(table)
    /\ column \in {0, 1}
    /\ LET edited == IF column = 0 THEN [table EXCEPT ![row].start = text]
                     ELSE [table EXCEPT ![row].end = text]
       IN  IF connections
           THEN /\ table' = _on_time_changed(edited, row, column)
                /\ total_label' = update_total_label(table')
           ELSE /\ table' = edited
                /\ UNCHANGED total_label
    /\ lastOp' = Op("edit_time", "")
    /\ UNCHANGED <<store, date_picker, connections, mbVars>>

EditTimeCell(froms, tos) ==
    \E row \in 1..Len(table), column \in {0, 1} :
        \E text \in (IF column = 0 THEN froms ELSE tos) :
            EditTime(row, column, text)

\* The user picks a category in a row's combo box.
SelectCategory ==
    \E row \in 1..Len(table), i \in DOMAIN CATEGORY_OPTIONS :
        /\ i <= MaxCategory
        /\ table' = [table EXCEPT ![row].category = CATEGORY_OPTIONS[i]]
        /\ lastOp' = Op("select_category", "")
        /\ UNCHANGED <<store, total_label, date_picker, connections, mbVars>>

\* save_entries without the return on validation errors: the rows that parse
\* are saved.
save_entries_partial(fault) ==
    LET entries == collect_entries(table, date_picker).entries
    IN  /\ IF Len(entries) = 0
           THEN /\ lastOp' = Op("save_entries", "Nothing to save")
                /\ UNCHANGED store
           ELSE /\ store' = insert_entries(delete_entries_for_date(store, date_picker), entries)
                /\ lastOp' = Op("save_entries", "Saved")
        /\ fault = "none"
        /\ UNCHANGED <<table, total_label, date_picker, connections, mbVars>>

\* save_entries without the return on an empty form: the day is cleared.
save_entries_clearing(fault) ==
    LET collected == collect_entries(table, date_picker)
    IN  /\ IF Len(collected.errors) > 0
           THEN /\ lastOp' = Op("save_entries", "Validation errors")
                /\ UNCHANGED store
           ELSE /\ store' = insert_entries(delete_entries_for_date(store, date_picker),
                                           collected.entries)
                /\ lastOp' = Op("save_entries", "Saved")
        /\ fault = "none"
        /\ UNCHANGED <<table, total_label, date_picker, connections, mbVars>>

\* Save Day.  A storage error propagates out of the handler uncaught.
save_entries(fault) ==
    LET collected == collect_entries(table, date_picker)
        entries == collected.entries
        errors == collected.errors
        date_iso == date_picker
    IN  /\ IF Len(errors) > 0
           THEN /\ lastOp' = Op("save_entries", "Validation errors")
                /\ UNCHANGED store
           ELSE IF Len(entries) = 0
           THEN /\ lastOp' = Op("save_entries", "Nothing to save")
                /\ UNCHANGED store
           ELSE IF fault = "delete"
           THEN /\ lastOp' = Op("save_entries", "error in delete_entries_for_date")
                /\ UNCHANGED store
           ELSE IF fault = "insert"
           THEN /\ store' = delete_entries_for_date(store, date_iso)
                /\ lastOp' = Op("save_entries", "error in insert_entries")
           ELSE /\ store' = insert_entries(delete_entries_for_date(store, date_iso), entries)
                /\ lastOp' = Op("save_entries", "Saved")
        /\ UNCHANGED <<table, total_label, date_picker, connections, mbVars>>

SaveDay == \E fault \in Faults : save_entries(fault)

\* ---------------------------------------------------------- specifications
\* Times of day handed to minutes_between on its own: hour and minute as a user
\* writes them, with or without a leading zero; hour 24 and minute 60 are out
\* of range.
MBHours == {0, 9, 10, 23, 24}
MBMinutes == {0, 5, 30, 59, 60}
MBTimes == [hour : MBHours, minute : MBMinutes, padded : BOOLEAN]

TwoDigits(n, padded) ==
    IF padded /\ n < 10 THEN <<"0">> \o IntToStr(n) ELSE IntToStr(n)

TimeText(t) == TwoDigits(t.hour, t.padded) \o <<":">> \o TwoDigits(t.minute, t.padded)

MBIdle ==
    /\ mb_start = [hour |-> 0, minute |-> 0, padded |-> TRUE]
    /\ mb_end = [hour |-> 0, minute |-> 0, padded |-> TRUE]
    /\ mb_result = <<>>

\* minutes_between called with the two texts; a ValueError raised is recorded
\* as the result.
CallMinutesBetween ==
    /\ mb_result = <<>>
    /\ mb_result' = <<minutes_between(TimeText(mb_start), TimeText(mb_end))>>
    /\ UNCHANGED <<formVars, mb_start, mb_end>>

\* The form over several dates, with category picks.
Init == InitForm(Dates) /\ MBIdle

Next ==
    \/ Restart(Dates)
    \/ SelectDate(Dates)
    \/ AddRow
    \/ RemoveSelected
    \/ EditTimeCell(FromTexts, ToTexts)
    \/ SelectCategory
    \/ SaveDay

Spec == Init /\ [][Next]_vars

\* The form kept on one date and on the default category, every kind of time
\* text typed.
Today == 1

InitDay == InitForm({Today}) /\ MBIdle

NextDay ==
    \/ Restart({Today})
    \/ AddRow
    \/ RemoveSelected
    \/ EditTimeCell(DayTexts, DayTexts)
    \/ SaveDay

SpecDay == InitDay /\ [][NextDay]_vars

\* minutes_between on its own, over every pair of MBTimes.
InitMB ==
    /\ InitForm({Today})
    /\ mb_start \in MBTimes
    /\ mb_end \in MBTimes
    /\ mb_result = <<>>

NextMB == CallMinutesBetween

SpecMB == InitMB /\ [][NextMB]_vars

\* ------------------------------------------------------------ properties
Saved == lastOp = Op("save_entries", "Saved")

\* Whether both time cells of a row parse.
RowParses(r) ==
    strptime(strip(r.start)) # ValueError /\ strptime(strip(r.end)) # ValueError

\* Minutes from the start to the end of a row whose times parse.
RowMinutes(r) ==
    LET start == strptime(strip(r.start))
        end == strptime(strip(r.end))
    IN  IF end >= start THEN end - start ELSE end - start + 1440

\* What a row's duration cell is to show.
RowDisplay(r) == IF RowParses(r) THEN _format_minutes(RowMinutes(r)) ELSE PLACEHOLDER

\* The entries the rows of the form stand for, as a bag.
FormEntries == SeqToBag(collect_entries(table, date_picker).entries)

\* C1: a day save is atomic: after a save step, failed between the delete and
\* the insert or not, the entries stored for the selected date are the complete
\* old set or the complete new set.
C1_SaveIsAtomic ==
    [][SaveDay =>
        RowsOfDate(store', date_picker) \in {RowsOfDate(store, date_picker), FormEntries}]_vars

\* C2: after a successful save, fetch_entries of the saved date returns exactly
\* the saved entries, ordered by start time of day ascending.
C2_FetchSavedByTimeOfDay ==
    Saved =>
        /\ fetch_entries(store, date_picker) # {}
        /\ \A r \in fetch_entries(store, date_picker) :
            /\ SeqToBag(r) = FormEntries
            /\ \A i \in 1..(Len(r) - 1) :
                strptime(r[i].start_time) <= strptime(r[i + 1].start_time)

\* C3: a save of a form with a row whose start or end time does not parse is
\* aborted: it ends with the validation dialog and the store is unchanged.
C3_InvalidRowAbortsSave ==
    [][(SaveDay /\ \E i \in 1..Len(table) : ~RowParses(table[i])) =>
        (store' = store /\ lastOp' = Op("save_entries", "Validation errors"))]_vars

\* C3 witness: the validation dialog after a save of a form with one row that
\* parses and one with an hour out of range, over a store that holds entries.
C3_Witness ==
    /\ lastOp = Op("save_entries", "Validation errors")
    /\ store # EmptyBag
    /\ \E i, j \in 1..Len(table) :
        RowParses(table[i]) /\ table[j].start = T2400 /\ table[j].end = T1030

\* C4: for valid times, minutes_between returns end - start when end >= start,
\* end - start + 1440 when end < start, always within 0..1439.
C4_MinutesBetween ==
    LET valid(t) == t.hour <= 23 /\ t.minute <= 59
        start == 60 * mb_start.hour + mb_start.minute
        end == 60 * mb_end.hour + mb_end.minute
    IN  (mb_result # <<>> /\ valid(mb_start) /\ valid(mb_end)) =>
            /\ mb_result[1] = (IF end >= start THEN end - start ELSE end - start + 1440)
            /\ mb_result[1] \in 0..1439

\* C4 witness: minutes_between has returned for 23:30 to 0:05, across midnight.
C4_Witness ==
    /\ mb_result = <<35>>
    /\ mb_start = [hour |-> 23, minute |-> 30, padded |-> TRUE]
    /\ mb_end = [hour |-> 0, minute |-> 5, padded |-> FALSE]

\* C5: an edit of the start or end time of any row of the form recomputes that
\* row's duration display: the formatted minutes when both times parse, the
\* placeholder otherwise.
C5_EditRecomputesDuration ==
    [][\A row \in 1..Len(table), column \in {0, 1}, text \in DayTexts :
        EditTime(row, column, text) => table'[row].duration = RowDisplay(table'[row])]_vars

\* The total the label is to show: the minutes of every row, 0 for a row whose
\* times do not parse.
ExpectedTotal(tbl) ==
    LET RECURSIVE Sum(_)
        Sum(i) == IF i = 0 THEN 0
                  ELSE Sum(i - 1) + (IF RowParses(tbl[i]) THEN RowMinutes(tbl[i]) ELSE 0)
        total == Sum(Len(tbl))
    IN  <<"T", "o", "t", "a", "l", ":", " ">>
        \o IntToStr(total \div 60) \o <<"h", " ">> \o IntToStr(total % 60) \o <<"m">>

\* C6: after every edit of a time field, every row removal and every date load
\* the total label shows the sum of the durations of the rows of the form.
C6_TotalIsSumOfRows ==
    [][(EditTimeCell(FromTexts, ToTexts) \/ RemoveSelected
            \/ SelectDate(Dates) \/ Restart(Dates)) =>
        total_label' = ExpectedTotal(table')]_vars

\* The rows a list of fetched entries is shown as.
RowsOf(entries) ==
    IF Len(entries) = 0
    THEN <<Row(Blank, Blank, CATEGORY_OPTIONS[1], PLACEHOLDER)>>
    ELSE [i \in 1..Len(entries) |->
            Row(entries[i].start_time, entries[i].end_time, entries[i].category,
                _format_minutes(entries[i].duration_minutes))]

\* C7: after load_entries_for_date the rows of the form are exactly the entries
\* fetch_entries returns for the selected date, in order, and exactly one blank
\* row when there is none; no row of the date shown before remains.
C7_LoadShowsFetchedEntries ==
    lastOp.op \in {"load_entries_for_date", "__init__"} =>
        \E entries \in fetch_entries(store, date_picker) : table = RowsOf(entries)

\* C7 witness: another date was picked and its two stored entries, of
\* different categories, are the two rows of the form.
C7_Witness ==
    /\ lastOp.op = "load_entries_for_date"
    /\ BagCardinality(RowsOfDate(store, date_picker)) = 2
    /\ Len(table) = 2
    /\ table[1].category # table[2].category

\* C8: every stored entry's duration_minutes is minutes_between of its own
\* start_time and end_time.
C8_StoredDurationIsRecomputed ==
    \A e \in DOMAIN store :
        /\ minutes_between(e.start_time, e.end_time) # ValueError
        /\ e.duration_minutes = minutes_between(e.start_time, e.end_time)

\* C8 witness: a save has stored an entry across midnight from a row whose
\* duration display shows another duration.
C8_Witness ==
    /\ Saved
    /\ \E i \in 1..Len(table) :
        /\ RowParses(table[i])
        /\ strptime(table[i].end) < strptime(table[i].start)
        /\ table[i].duration # RowDisplay(table[i])
        /\ \E e \in DOMAIN store :
            /\ e.start_time = table[i].start /\ e.end_time = table[i].end
            /\ e.duration_minutes = 1350

\* C9: a save of a form with zero rows does nothing to the store.
C9_EmptyFormSaveIsNoOp ==
    [][(SaveDay /\ Len(table) = 0) =>
        (store' = store /\ lastOp' = Op("save_entries", "Nothing to save"))]_vars

\* C9 witness: "Nothing to save" shown for a form with no row while the store
\* holds entries for the selected date.
C9_Witness ==
    /\ lastOp = Op("save_entries", "Nothing to save")
    /\ Len(table) = 0
    /\ RowsOfDate(store, date_picker) # EmptyBag

\* C10: a successful save changes only the entries stored for the selected
\* date: for every other date the stored rows, and what fetch_entries returns,
\* are the same before and after.
C10_SaveTouchesOnlySelectedDate ==
    [][(SaveDay /\ lastOp' = Op("save_entries", "Saved")) =>
        /\ \A e \in DOMAIN FormEntries : e.date_iso = date_picker
        /\ RowsOfDate(store', date_picker) = FormEntries
        /\ \A d \in Dates \ {date_picker} :
            /\ RowsOfDate(store', d) = RowsOfDate(store, d)
            /\ fetch_entries(store', d) = fetch_entries(store, d)]_vars

\* C10 witness: a day saved while another date holds entries.
C10_Witness ==
    /\ Saved
    /\ RowsOfDate(store, date_picker) # EmptyBag
    /\ \E d \in Dates \ {date_picker} : RowsOfDate(store, d) # EmptyBag

====
